---------------------------- MODULE Spec2Model ----------------------------
(***************************************************************************)
(* Store monitor: report runs (sequential task, parallel chord of chunk    *)
(* tasks and reducer) and the metrics engine (segment evaluator, period    *)
(* walk, business-hour expander).                                          *)
(*                                                                         *)
(* Four specifications share the module:                                   *)
(*   Spec         one report run, from the dispatch of its task to the     *)
(*                last task of the run, interleaved with the moment the    *)
(*                report record becomes visible to the workers;            *)
(*   SpecMetrics  the metrics engine as a function of a store's            *)
(*                observations, rules, timezone and `now`;                 *)
(*   SpecData     report runs, one after another, over tables that a data  *)
(*                load empties and refills;                                *)
(*   SpecLoad     the load of the CSV files into the tables, by the chord  *)
(*                of load tasks and by the management command.             *)
(***************************************************************************)
EXTENDS Integers, Sequences, FiniteSets, TLC

VARIABLES
    \* ---- report run -----------------------------------------------------
    path,        \* "sequential" (generate_report_task) or "parallel"
    table,       \* store_id column of the StoreStatus table, in row order
    chunk_size,  \* argument of generate_report_parallel_task
    report,      \* the Report row of this report_id (NoReport: not visible)
    cache,       \* django cache: the set of stores whose row is cached
    pc,          \* entry task: "queued", "except", "scheduled", "done"
    exc,         \* exception held by the entry task's handler
    found,       \* the entry task's local `report` is not None
    retries,     \* self.request.retries of the current attempt
    delays,      \* countdowns of the retries scheduled so far, in order
    chunks,      \* header of the chord: one record per chunk task
    dispatched,  \* the chord has been applied
    combineRuns, \* number of executions of combine_report_results
    skipped,     \* stores whose row computation raised in this run
    \* ---- metrics engine -------------------------------------------------
    mIn,         \* input of one evaluation
    mOut,        \* its results
    \* ---- data loads and report runs over the tables -----------------------
    db,          \* the version held by each of the three tables
    loader,      \* the data load in progress
    dcache,      \* django cache: the cached report line of each store
    run,         \* the report run in progress
    hist,        \* the report runs that are over, in order
    \* ---- loading the CSV files ------------------------------------------
    docs,        \* the CSV files under docs/
    orm,         \* the rows of the three tables, in insertion order
    job          \* the data load: its position and the tasks still to run

metricVars == <<mIn, mOut>>
dataVars == <<db, loader, dcache, run, hist>>
loadVars == <<docs, orm, job>>
runVars == <<path, table, chunk_size, report, cache, pc, exc, found, retries,
             delays, chunks, dispatched, combineRuns, skipped>>
vars == <<path, table, chunk_size, report, cache, pc, exc, found, retries,
          delays, chunks, dispatched, combineRuns, skipped, mIn, mOut,
          db, loader, dcache, run, hist, docs, orm, job>>

(***************************************************************************)
(* Bounds of the report-run model.                                         *)
(***************************************************************************)
Stores == {"A", "B", "C"}
MaxRows == 3
MaxChunkSize == 3

(***************************************************************************)
(* Generic helpers.                                                        *)
(***************************************************************************)
Range(s) == {s[i] : i \in 1..Len(s)}

RECURSIVE SeqsUpTo(_, _)
SeqsUpTo(S, n) == IF n = 0 THEN {<<>>}
                  ELSE LET shorter == SeqsUpTo(S, n - 1)
                       IN  shorter \cup
                           {Append(s, x) : s \in {t \in shorter : Len(t) = n - 1},
                                           x \in S}

Min2(a, b) == IF a <= b THEN a ELSE b
Max2(a, b) == IF a >= b THEN a ELSE b

RECURSIVE Pow2(_)
Pow2(k) == IF k = 0 THEN 1 ELSE 2 * Pow2(k - 1)

\* Number of occurrences of x in sequence s.
Count(s, x) == Cardinality({i \in 1..Len(s) : s[i] = x})

(***************************************************************************)
(* The Report row.                                                         *)
(***************************************************************************)
NoReport == [status |-> "absent", kind |-> "none", sep |-> "none",
             lines |-> <<>>, msg |-> "none"]

\* Report.objects.create(report_id=report_id, status="Running")
NewReport == [status |-> "Running", kind |-> "none", sep |-> "none",
              lines |-> <<>>, msg |-> "none"]

\* report.status = "Failed"; report.report_data = <diagnostic>; report.save()
FailedReport(m) == [status |-> "Failed", kind |-> "diagnostic", sep |-> "none",
                    lines |-> <<>>, msg |-> m]

\* report.report_data = sep.join(lines); report.status = "Complete"; save()
CompleteReport(ls, sep) == [status |-> "Complete", kind |-> "csv", sep |-> sep,
                            lines |-> ls, msg |-> "none"]

HEADER == "store_id,uptime_last_hour,uptime_last_day,uptime_last_week,downtime_last_hour,downtime_last_day,downtime_last_week"

\* The report line of a store: its first field is the store id, which is
\* what identifies the row in the body.
ReportLine(s) == s

max_retries == 3
default_retry_delay == 10

(***************************************************************************)
(* store_statuses_df["store_id"].unique(): first occurrences, in order.    *)
(***************************************************************************)
RECURSIVE UniqueFrom(_, _)
UniqueFrom(s, seen) ==
    IF s = <<>> THEN <<>>
    ELSE IF Head(s) \in seen THEN UniqueFrom(Tail(s), seen)
         ELSE <<Head(s)>> \o UniqueFrom(Tail(s), seen \cup {Head(s)})

\* The store_id column taken without .unique().
UniqueNoDedup(s) == s

Unique(s) == UniqueFrom(s, {})

(***************************************************************************)
(* store_chunks = [all_store_ids[i : i + chunk_size]                       *)
(*                 for i in range(0, len(all_store_ids), chunk_size)]      *)
(***************************************************************************)
Slice(s, from, to) == SubSeq(s, from, Min2(to, Len(s)))

RECURSIVE ChunksFrom(_, _, _)
ChunksFrom(ids, i, cs) ==
    IF i > Len(ids) THEN <<>>
    ELSE <<Slice(ids, i, i + cs - 1)>> \o ChunksFrom(ids, i + cs, cs)

\* A slicing slip: the slice end is exclusive twice, so each chunk loses
\* its last store.
RECURSIVE ChunksFromShort(_, _, _)
ChunksFromShort(ids, i, cs) ==
    IF i > Len(ids) THEN <<>>
    ELSE <<Slice(ids, i, i + cs - 2)>> \o ChunksFromShort(ids, i + cs, cs)

StoreChunksLossy(ids, cs) == ChunksFromShort(ids, 1, cs)

StoreChunks(ids, cs) == ChunksFrom(ids, 1, cs)

(***************************************************************************)
(* Outcome of _process_single_store_metrics for one store: it returns the  *)
(* row, raises KeyError (a missing column, an unknown timezone name) or    *)
(* raises another exception.                                               *)
(***************************************************************************)
Outcomes == {"ok", "KeyError", "Error"}

(***************************************************************************)
(* The store loop of generate_report_task.  c is the set of stores with a  *)
(* cached row, o the outcome of the computation of each store.  Any        *)
(* exception leaves the loop and the task's try block.                     *)
(***************************************************************************)
RECURSIVE SeqLoop(_, _, _)
SeqLoop(ids, c, o) ==
    IF ids = <<>> THEN [lines |-> <<>>, cache |-> c, raised |-> FALSE, bad |-> {}]
    ELSE LET s == Head(ids) IN
         IF s \in c
         THEN LET rest == SeqLoop(Tail(ids), c, o)
              IN  [rest EXCEPT !.lines = <<ReportLine(s)>> \o @]
         ELSE IF o[s] # "ok"
              THEN [lines |-> <<>>, cache |-> c, raised |-> TRUE, bad |-> {s}]
              ELSE LET rest == SeqLoop(Tail(ids), c \cup {s}, o)
                   IN  [rest EXCEPT !.lines = <<ReportLine(s)>> \o @]

\* report_lines of generate_report_task: the header, then the loop's rows.
SequentialLines(ids, c, o) ==
    LET r == SeqLoop(ids, c, o)
    IN  [r EXCEPT !.lines = <<HEADER>> \o @]

(***************************************************************************)
(* The store loop of process_store_chunk_task: KeyError skips the store,   *)
(* any other exception leaves the loop and fails the chunk task.           *)
(***************************************************************************)
RECURSIVE ChunkLoop(_, _)
ChunkLoop(ids, o) ==
    IF ids = <<>> THEN [lines |-> <<>>, raised |-> FALSE, bad |-> {}]
    ELSE LET s == Head(ids) IN
         CASE o[s] = "ok" ->
                LET rest == ChunkLoop(Tail(ids), o)
                IN  [rest EXCEPT !.lines = <<ReportLine(s)>> \o @]
           [] o[s] = "KeyError" ->
                LET rest == ChunkLoop(Tail(ids), o)
                IN  [rest EXCEPT !.bad = @ \cup {s}]
           [] OTHER -> [lines |-> <<>>, raised |-> TRUE, bad |-> {s}]

(***************************************************************************)
(* combine_report_results: the header, then every non-empty chunk result.  *)
(***************************************************************************)
RECURSIVE Flatten(_)
Flatten(results) ==
    IF results = <<>> THEN <<>>
    ELSE (IF Head(results) # <<>> THEN Head(results) ELSE <<>>)
         \o Flatten(Tail(results))

CombineLines(results) == <<HEADER>> \o Flatten(results)

ChunkResults == [i \in 1..Len(chunks) |-> chunks[i].result]

(***************************************************************************)
(* The chord: the callback is applied once every header task has           *)
(* succeeded; a failed header task means the callback is never applied.    *)
(***************************************************************************)
\* A callback applied as soon as no header task is pending, failed or not.
ChordReadyIgnoringFailures(cs) ==
    \A i \in 1..Len(cs) : cs[i].state # "pending"

ChordReady(cs) ==
    \A i \in 1..Len(cs) : cs[i].state = "succeeded"

\* self.retry(): a retry is scheduled while request.retries < max_retries,
\* otherwise the original exception is raised.
RetryAllowed(r) == r < max_retries

\* countdown=int(self.default_retry_delay * (2**self.request.retries))
Countdown(r) == default_retry_delay * Pow2(r)

(***************************************************************************)
(* Report-run actions.                                                     *)
(***************************************************************************)

\* views.trigger_report / trigger_report_parallel: the row created by the
\* view becomes visible to the workers.
CreateReport ==
    /\ report = NoReport
    /\ report' = NewReport
    /\ UNCHANGED <<path, table, chunk_size, cache, pc, exc, found, retries,
                   delays, chunks, dispatched, combineRuns, skipped>>
    /\ UNCHANGED metricVars /\ UNCHANGED loadVars
    /\ UNCHANGED dataVars

\* The status written by an attempt of generate_report_task that found the
\* row: `if report.status != "Running": ... save(update_fields=["status"])`.
EnsureRunning(r) == IF r.status # "Running" THEN [r EXCEPT !.status = "Running"] ELSE r

\* One attempt of generate_report_task, up to the end of its try block.
SeqAttempt ==
    /\ path = "sequential"
    /\ pc = "queued"
    /\ UNCHANGED <<path, table, chunk_size, retries, chunks, dispatched,
                   combineRuns>>
    /\ UNCHANGED metricVars /\ UNCHANGED loadVars
    /\ UNCHANGED dataVars
    /\ IF report = NoReport
       THEN \* Report.DoesNotExist -> self.retry(...)
            /\ found' = FALSE
            /\ pc' = "except"
            /\ IF RetryAllowed(retries)
               THEN /\ delays' = Append(delays, Countdown(retries))
                    /\ exc' = "Retry"
               ELSE /\ delays' = delays
                    /\ exc' = "DoesNotExist"
            /\ UNCHANGED <<report, cache, skipped>>
       ELSE /\ found' = TRUE
            /\ delays' = delays
            /\ \E load \in {"ok", "raise"} :
                 IF load = "raise"
                 THEN \* _load_all_data() raises
                      /\ report' = EnsureRunning(report)
                      /\ pc' = "except"
                      /\ exc' = "Error"
                      /\ UNCHANGED <<cache, skipped>>
                 ELSE IF table = <<>>
                 THEN /\ report' = FailedReport("StoreStatus data is empty.")
                      /\ pc' = "done"
                      /\ exc' = "none"
                      /\ UNCHANGED <<cache, skipped>>
                 ELSE \E o \in [Range(table) -> Outcomes] :
                        LET r == SequentialLines(Unique(table), cache, o) IN
                        /\ cache' = r.cache
                        /\ skipped' = skipped \cup r.bad
                        /\ IF r.raised
                           THEN /\ report' = EnsureRunning(report)
                                /\ pc' = "except"
                                /\ exc' = "Error"
                           ELSE /\ report' = CompleteReport(r.lines, "\\n")
                                /\ pc' = "done"
                                /\ exc' = "none"

\* The `except Exception` handler of generate_report_task.
SeqExcept ==
    /\ path = "sequential"
    /\ pc = "except"
    /\ report' = IF report # NoReport
                 THEN FailedReport(exc)
                 ELSE report
    /\ found' = (report # NoReport)
    /\ pc' = IF exc = "Retry" THEN "scheduled" ELSE "done"
    /\ UNCHANGED <<path, table, chunk_size, cache, exc, retries, delays,
                   chunks, dispatched, combineRuns, skipped>>
    /\ UNCHANGED metricVars /\ UNCHANGED loadVars
    /\ UNCHANGED dataVars

\* The countdown of a scheduled retry elapses and a worker takes the task.
SeqRetry ==
    /\ path = "sequential"
    /\ pc = "scheduled"
    /\ pc' = "queued"
    /\ retries' = retries + 1
    /\ exc' = "none"
    /\ UNCHANGED <<path, table, chunk_size, report, cache, found, delays,
                   chunks, dispatched, combineRuns, skipped>>
    /\ UNCHANGED metricVars /\ UNCHANGED loadVars
    /\ UNCHANGED dataVars

\* The header of the chord built from the chunks.
Header(cks) == [i \in 1..Len(cks) |->
                  [ids |-> cks[i], state |-> "pending", result |-> <<>>]]

\* generate_report_parallel_task, up to the end of its try block.
ParStart ==
    /\ path = "parallel"
    /\ pc = "queued"
    /\ UNCHANGED <<path, table, chunk_size, cache, retries, delays,
                   combineRuns, skipped>>
    /\ UNCHANGED metricVars /\ UNCHANGED loadVars
    /\ UNCHANGED dataVars
    /\ IF report = NoReport
       THEN /\ found' = FALSE
            /\ pc' = "except"
            /\ exc' = "DoesNotExist"
            /\ UNCHANGED <<report, chunks, dispatched>>
       ELSE /\ found' = TRUE
            /\ \E load \in {"ok", "raise"} :
                 IF load = "raise"
                 THEN /\ report' = [report EXCEPT !.status = "Running"]
                      /\ pc' = "except"
                      /\ exc' = "Error"
                      /\ UNCHANGED <<chunks, dispatched>>
                 ELSE IF table = <<>>
                 THEN /\ report' = FailedReport("StoreStatus data is empty.")
                      /\ pc' = "done"
                      /\ exc' = "none"
                      /\ UNCHANGED <<chunks, dispatched>>
                 ELSE IF chunk_size = 0
                 THEN \* range() arg 3 must not be zero
                      /\ report' = [report EXCEPT !.status = "Running"]
                      /\ pc' = "except"
                      /\ exc' = "Error"
                      /\ UNCHANGED <<chunks, dispatched>>
                 ELSE /\ report' = [report EXCEPT !.status = "Running"]
                      /\ chunks' = Header(StoreChunks(Unique(table), chunk_size))
                      /\ dispatched' = TRUE
                      /\ pc' = "done"
                      /\ exc' = "none"

\* The `except Exception` handler of generate_report_parallel_task: the
\* exception is re-raised and the task is not retried.
ParExcept ==
    /\ path = "parallel"
    /\ pc = "except"
    /\ report' = IF report # NoReport THEN FailedReport(exc) ELSE report
    /\ found' = (report # NoReport)
    /\ pc' = "done"
    /\ UNCHANGED <<path, table, chunk_size, cache, exc, retries, delays,
                   chunks, dispatched, combineRuns, skipped>>
    /\ UNCHANGED metricVars /\ UNCHANGED loadVars
    /\ UNCHANGED dataVars

\* process_store_chunk_task for chunk i.
ChunkRun(i) ==
    /\ dispatched
    /\ chunks[i].state = "pending"
    /\ \E load \in {"ok", "raise"} :
         IF load = "raise"
         THEN /\ chunks' = [chunks EXCEPT ![i].state = "failed"]
              /\ skipped' = skipped
         ELSE \E o \in [Range(chunks[i].ids) -> Outcomes] :
                LET r == ChunkLoop(chunks[i].ids, o) IN
                /\ skipped' = skipped \cup r.bad
                /\ chunks' = IF r.raised
                             THEN [chunks EXCEPT ![i].state = "failed"]
                             ELSE [chunks EXCEPT ![i].state = "succeeded",
                                                 ![i].result = r.lines]
    /\ UNCHANGED <<path, table, chunk_size, report, cache, pc, exc, found,
                   retries, delays, dispatched, combineRuns>>
    /\ UNCHANGED metricVars /\ UNCHANGED loadVars
    /\ UNCHANGED dataVars

\* combine_report_results, applied by the chord.
Combine ==
    /\ dispatched
    /\ combineRuns = 0
    /\ ChordReady(chunks)
    /\ combineRuns' = combineRuns + 1
    /\ \E save \in {"ok", "raise"} :
         report' = IF report = NoReport THEN report
                   ELSE IF save = "raise"
                        THEN FailedReport("Error combining results")
                        ELSE CompleteReport(CombineLines(ChunkResults), "\n")
    /\ UNCHANGED <<path, table, chunk_size, cache, pc, exc, found, retries,
                   delays, chunks, dispatched, skipped>>
    /\ UNCHANGED metricVars /\ UNCHANGED loadVars
    /\ UNCHANGED dataVars

NoInput == [kind |-> "none"]
NoOutput == [kind |-> "none"]

(***************************************************************************)
(* The tables, the data load and the report run of the specification of    *)
(* runs over changing tables, when nothing of it is in progress.           *)
(***************************************************************************)
\* a table not read yet by _load_all_data
NotRead == 0 - 1

\* the version of an empty table (after StoreStatus.objects.all().delete())
EmptyVersion == 0

Snapshot(st, hr, tz) == [status |-> st, hours |-> hr, tz |-> tz]
NoSnapshot == Snapshot(NotRead, NotRead, NotRead)
EmptyTables == Snapshot(EmptyVersion, EmptyVersion, EmptyVersion)

IdleLoader == [pc |-> "idle", csv |-> EmptyVersion, todo |-> {}, loads |-> 0]

NoRun == [path |-> "none", pc |-> "none", chunk_size |-> 0, snap |-> NoSnapshot,
          tasks |-> <<>>, tables |-> NoSnapshot]

\* cache.get(cache_key) of a key that was never set (None)
NoLine == [store |-> "none", figures |-> <<>>]
EmptyCache == [s \in Stores |-> NoLine]

IdleData ==
    /\ db = EmptyTables
    /\ loader = IdleLoader
    /\ dcache = EmptyCache
    /\ run = NoRun
    /\ hist = <<>>

(***************************************************************************)
(* The CSV files, the tables' rows and the data load of the specification  *)
(* of the CSV load, when no file is there and nothing was loaded.          *)
(***************************************************************************)
CsvFile(fieldnames, rows) == [fieldnames |-> fieldnames, rows |-> rows]

NoDocs == [store_status |-> <<>>, menu_hours |-> CsvFile("none", <<>>),
           timezones |-> <<>>]

EmptyOrm == [StoreStatus |-> <<>>, BusinessHours |-> <<>>, StoreTimezone |-> <<>>]

NoCounts == [store_status |-> 0, business_hours |-> 0, timezones |-> 0]

IdleJob == [pc |-> "idle", via |-> "none", chunk_size |-> 0, todo |-> {},
            counts |-> NoCounts]

IdleLoad ==
    /\ docs = NoDocs
    /\ orm = EmptyOrm
    /\ job = IdleJob

Init ==
    /\ path \in {"sequential", "parallel"}
    /\ table \in SeqsUpTo(Stores, MaxRows)
    /\ chunk_size \in IF path = "parallel" THEN 0..MaxChunkSize ELSE {0}
    /\ cache \in IF path = "sequential" THEN SUBSET Stores ELSE {{}}
    /\ report = NoReport
    /\ pc = "queued"
    /\ exc = "none"
    /\ found = FALSE
    /\ retries = 0
    /\ delays = <<>>
    /\ chunks = <<>>
    /\ dispatched = FALSE
    /\ combineRuns = 0
    /\ skipped = {}
    /\ mIn = NoInput
    /\ mOut = NoOutput
    /\ IdleData
    /\ IdleLoad

Next ==
    \/ CreateReport
    \/ SeqAttempt
    \/ SeqExcept
    \/ SeqRetry
    \/ ParStart
    \/ ParExcept
    \/ \E i \in 1..Len(chunks) : ChunkRun(i)
    \/ Combine

Spec == Init /\ [][Next]_vars

\* Celery runs every queued task, and a chord applies its callback once the
\* header has succeeded; the report row may never become visible.
FairSpec ==
    /\ Spec
    /\ WF_vars(SeqAttempt) /\ WF_vars(SeqExcept) /\ WF_vars(SeqRetry)
    /\ WF_vars(ParStart) /\ WF_vars(ParExcept)
    /\ WF_vars(\E i \in 1..Len(chunks) : ChunkRun(i))
    /\ WF_vars(Combine)

(***************************************************************************)
(* Properties of a report run.                                             *)
(***************************************************************************)
AllChunks(st) == \A i \in 1..Len(chunks) : chunks[i].state = st
SomeChunk(st) == \E i \in 1..Len(chunks) : chunks[i].state = st

\* No task of the run is queued, scheduled or running any more.
RunOver ==
    /\ pc = "done"
    /\ dispatched => /\ ~SomeChunk("pending")
                     /\ AllChunks("succeeded") => combineRuns = 1

\* C1: every report run eventually leaves Running: once the run is over,
\* a report whose record the run found is Complete or Failed with a
\* diagnostic; in particular a raised chunk task ends in Failed.
C1_RunLeavesRunning ==
    (RunOver /\ found) =>
        \/ report.status = "Complete"
        \/ report.status = "Failed" /\ report.kind = "diagnostic"

\* C2: Failed is terminal: no step of a run changes the status of a
\* report from Failed to Running or Complete.
C2_FailedIsTerminal ==
    [][report.status = "Failed" => report'.status = "Failed"]_vars

\* C3: in a parallel run combine_report_results executes at most once and
\* only with every chunk task succeeded, it does execute once they all have
\* succeeded, and the report is not Complete while a chunk is pending or
\* after a chunk failed.
C3_AggregatorInv ==
    /\ combineRuns <= 1
    /\ combineRuns = 1 => dispatched /\ AllChunks("succeeded")
    /\ (path = "parallel" /\ report.status = "Complete") =>
           /\ combineRuns = 1
           /\ ~SomeChunk("pending")
           /\ ~SomeChunk("failed")

C3_AggregatorOnceAfterAllChunks ==
    /\ []C3_AggregatorInv
    /\ (dispatched /\ AllChunks("succeeded")) ~> (combineRuns = 1)

C3_Witness ==
    /\ path = "parallel"
    /\ Len(chunks) >= 2
    /\ combineRuns = 1
    /\ report.status = "Complete"

\* C4: a run whose report record cannot be found is retried 3 times with
\* countdowns 10, 20, 40 before it gives up, on the sequential and on the
\* parallel path.
C4_RetryBackoff ==
    /\ \A i \in 1..Len(delays) : i <= 3 /\ delays[i] = 10 * Pow2(i - 1)
    /\ (pc = "done" /\ ~found) => delays = <<10, 20, 40>>

\* C5: for chunk_size >= 1 the chunks partition the distinct store ids, the
\* combined report is the header once followed by the rows of the chunk
\* results, and which rows it holds does not depend on chunk_size.
ChunkIdsConcat == Flatten([i \in 1..Len(chunks) |-> chunks[i].ids])

RECURSIVE SumCount(_, _)
SumCount(results, x) ==
    IF results = <<>> THEN 0
    ELSE Count(Head(results), x) + SumCount(Tail(results), x)

C5_PartitionAndUnion ==
    /\ dispatched =>
         /\ chunk_size >= 1
         /\ \A s \in Range(table) :
              Cardinality({i \in 1..Len(chunks) : s \in Range(chunks[i].ids)}) = 1
         /\ \A s \in Range(table) : Count(ChunkIdsConcat, s) = 1
         /\ Range(ChunkIdsConcat) = Range(table)
         /\ \A i \in 1..Len(chunks) :
              Len(chunks[i].ids) >= 1 /\ Len(chunks[i].ids) <= chunk_size
    /\ (path = "parallel" /\ report.status = "Complete") =>
         /\ report.lines[1] = HEADER
         /\ Count(report.lines, HEADER) = 1
         /\ \A s \in Stores :
              /\ Count(report.lines, ReportLine(s)) =
                     SumCount(ChunkResults, ReportLine(s))
              /\ Count(report.lines, ReportLine(s)) =
                     IF s \in Range(table) \ skipped THEN 1 ELSE 0
         /\ Len(report.lines) = 1 + Cardinality(Range(table) \ skipped)

C5_Witness ==
    /\ path = "parallel"
    /\ report.status = "Complete"
    /\ chunk_size = 2
    /\ Len(chunks) = 2
    /\ Len(report.lines) = 4

SECOND == 1000
MINUTE == 60 * SECOND
HOUR == 60 * MINUTE
DAY == 24 * HOUR
WEEK == 7 * DAY

\* time.max is the last representable time of the day: DAY minus one tick.
TimeResolution == 1

\* timedelta(days=8) of the eight-day rule
EightDayRuleDays == 8

\* (b - a).total_seconds() * 1000
DurationMs(a, b) == 2 * (b - a)

\* (midpoint - a).total_seconds() * 1000 and (b - midpoint).total_seconds()
\* * 1000, with midpoint = a + (b - a) / 2
HalfDurationMs(a, b) == b - a

ZeroTotals == [up |-> 0, down |-> 0]

\* segment_uptime_ms += d when the status is "active", segment_downtime_ms
\* += d when it is "inactive"
Credit(acc, status, d) ==
    IF status = "active" THEN [acc EXCEPT !.up = @ + d]
    ELSE IF status = "inactive" THEN [acc EXCEPT !.down = @ + d]
    ELSE acc

\* A first interval charged to downtime whatever the first observation says.
StatusForIntervalNoneIsDown(last, obs_status) ==
    IF last # "None" THEN last ELSE "inactive"

\* status_for_interval = last_known_status if last_known_status is not None
\*                       else obs_status
StatusForInterval(last, obs_status) ==
    IF last # "None" THEN last ELSE obs_status

\* The loop body without the advance of current_segment_pointer_utc.
ObsStepNoAdvance(st, o) ==
    LET acc == IF o.t > st.ptr
               THEN Credit(st, StatusForInterval(st.last, o.status),
                           DurationMs(st.ptr, o.t))
               ELSE st
    IN  [acc EXCEPT !.last = o.status]

\* The loop body without the midpoint: on a status change the whole interval
\* goes to the last known status.
ObsStepNoSplit(st, o) ==
    LET acc == IF o.t > st.ptr
               THEN Credit(st, StatusForInterval(st.last, o.status),
                           DurationMs(st.ptr, o.t))
               ELSE st
    IN  [acc EXCEPT !.ptr = o.t, !.last = o.status]

\* One iteration of the observation loop of the segment evaluator.
ObsStep(st, o) ==
    LET acc ==
          IF o.t > st.ptr
          THEN IF st.last # "None" /\ st.last # o.status
               THEN Credit(Credit(st, st.last, HalfDurationMs(st.ptr, o.t)),
                           o.status, HalfDurationMs(st.ptr, o.t))
               ELSE Credit(st, StatusForInterval(st.last, o.status),
                           DurationMs(st.ptr, o.t))
          ELSE st
    IN  [acc EXCEPT !.ptr = o.t, !.last = o.status]

RECURSIVE SegmentLoop(_, _)
SegmentLoop(rows, st) ==
    IF rows = <<>> THEN st
    ELSE SegmentLoop(Tail(rows), ObsStep(st, Head(rows)))

\* relevant_observations[timestamp_utc <= effective_interval_start].tail(1)
InitialStatus(R, S) ==
    LET b == SelectSeq(R, LAMBDA o : o.t <= S)
    IN  IF b = <<>> THEN "None" ELSE b[Len(b)].status

\* the rows with effective_interval_start <= timestamp_utc <=
\* effective_interval_end
RowsInSegment(R, S, E) == SelectSeq(R, LAMBDA o : o.t >= S /\ o.t <= E)

\* "Account for time from the last observation to the end of the segment"
Remainder(st, E) ==
    IF st.ptr < E
    THEN IF st.last = "active"
         THEN [st EXCEPT !.up = @ + DurationMs(st.ptr, E)]
         ELSE [st EXCEPT !.down = @ + DurationMs(st.ptr, E)]
    ELSE st

\* An evaluator that charges an empty frame to downtime on every day.
CalculateSegmentEmptyIsDown(S, E, R, is_24_7) ==
    IF R = <<>>
    THEN [up |-> 0, down |-> DurationMs(S, E)]
    ELSE LET st0 == [ptr |-> S, last |-> InitialStatus(R, S), up |-> 0, down |-> 0]
             st  == Remainder(SegmentLoop(RowsInSegment(R, S, E), st0), E)
         IN  [up |-> st.up, down |-> st.down]

\* _calculate_uptime_downtime_for_effective_segment
CalculateSegment(S, E, R, is_24_7) ==
    IF R = <<>>
    THEN IF is_24_7 THEN [up |-> 0, down |-> DurationMs(S, E)] ELSE ZeroTotals
    ELSE LET st0 == [ptr |-> S, last |-> InitialStatus(R, S), up |-> 0, down |-> 0]
             st  == Remainder(SegmentLoop(RowsInSegment(R, S, E), st0), E)
         IN  [up |-> st.up, down |-> st.down]

(***************************************************************************)
(* _calculate_metrics_for_period: the observations handed to the segment   *)
(* evaluator.                                                              *)
(***************************************************************************)
PeriodObservations(obs, Ws, We) == SelectSeq(obs, LAMBDA o : o.t >= Ws /\ o.t <= We)

\* An eight-day rule that measures the age from the start of the window.
ObsBeforePeriodFromWindowStart(obs, Ws, now) ==
    LET b == SelectSeq(obs, LAMBDA o : o.t < Ws)
    IN  IF b = <<>> THEN <<>>
        ELSE IF Ws - b[Len(b)].t > EightDayRuleDays * DAY THEN <<>>
             ELSE <<b[Len(b)]>>

\* store_data[timestamp_utc < period_start_utc].tail(1), emptied by the
\* eight-day rule when now - t > 8 days
ObsBeforePeriod(obs, Ws, now) ==
    LET b == SelectSeq(obs, LAMBDA o : o.t < Ws)
    IN  IF b = <<>> THEN <<>>
        ELSE IF now - b[Len(b)].t > EightDayRuleDays * DAY THEN <<>>
             ELSE <<b[Len(b)]>>

\* store_data[timestamp_utc > period_end_utc].head(1)
ObsAfterPeriod(obs, We) ==
    LET a == SelectSeq(obs, LAMBDA o : o.t > We)
    IN  IF a = <<>> THEN <<>> ELSE <<a[1]>>

RelevantObservations(obs, Ws, We, now) ==
    ObsBeforePeriod(obs, Ws, now) \o PeriodObservations(obs, Ws, We)
        \o ObsAfterPeriod(obs, We)

(***************************************************************************)
(* A pytz zone: local = UTC + std outside daylight-saving time, UTC + dst  *)
(* for the UTC instants in [from, to).  A zone without daylight-saving     *)
(* time has std = dst and from = to.                                       *)
(***************************************************************************)
Zone(std, dst, from, to) == [std |-> std, dst |-> dst, from |-> from, to |-> to]

FixedZone(o) == Zone(o, o, 0, 0)

InDst(tz, t) == tz.from <= t /\ t < tz.to

\* the utcoffset of the zone at a UTC instant (astimezone)
UtcOffset(tz, t) == IF InDst(tz, t) THEN tz.dst ELSE tz.std

\* A naive local time read at the standard offset, or at the daylight
\* offset, is a time the zone's clocks show at that offset.
ValidStd(local, tz) == ~InDst(tz, local - tz.std)
ValidDst(local, tz) == InDst(tz, local - tz.dst)

\* local times shown twice (fall-back) and never (spring-forward gap)
Ambiguous(local, tz) == ValidStd(local, tz) /\ ValidDst(local, tz)
NonExistent(local, tz) == ~ValidStd(local, tz) /\ ~ValidDst(local, tz)

(***************************************************************************)
(* _get_business_hour_segments_for_day_utc, for the zone off.              *)
(***************************************************************************)
\* The date of the UTC day itself, whatever the zone.
LocalDateIsUtcDate(dayUtc, off) == dayUtc \div DAY

\* current_day_processing_utc.astimezone(store_timezone).date()
LocalDate(dayUtc, off) == (dayUtc + UtcOffset(off, dayUtc)) \div DAY

\* store_timezone.localize(local).astimezone(pytz.utc): localize() is called
\* with its default is_dst=False, which never raises: an ambiguous time is
\* read at the standard offset, and so is a non-existent one.
ToUtc(local, off) ==
    IF ValidDst(local, off) /\ ~ValidStd(local, off) THEN local - off.dst
    ELSE local - off.std

\* An expander that keeps the end of every rule on the target date.
RuleSegmentSameDate(rule, date, off) ==
    [s |-> ToUtc(date * DAY + rule.start, off),
     e |-> ToUtc(date * DAY + rule.end, off)]

\* One rule of the day: start on the target date; the end on the target
\* date, or on the next date when end_time <= start_time.
RuleSegment(rule, date, off) ==
    LET start == date * DAY + rule.start
        endNaive == date * DAY + rule.end
        endLocal == IF endNaive <= start THEN (date + 1) * DAY + rule.end
                    ELSE endNaive
    IN  [s |-> ToUtc(start, off), e |-> ToUtc(endLocal, off)]

BusinessHourSegments(dayUtc, daily, off) ==
    LET date == LocalDate(dayUtc, off) IN
    IF daily = <<>>
    THEN <<[s |-> ToUtc(date * DAY, off),
            e |-> ToUtc(date * DAY + (DAY - TimeResolution), off)]>>
    ELSE [i \in 1..Len(daily) |-> RuleSegment(daily[i], date, off)]

\* current_day_processing_utc.weekday(): 0 = Monday
Weekday(dayUtc) == (dayUtc \div DAY) % 7

\* period_start_utc.replace(hour=0, minute=0, second=0, microsecond=0)
FloorDay(t) == (t \div DAY) * DAY

\* the loop over the business-hour segments of one day
RECURSIVE SegmentsTotal(_, _, _, _, _)
SegmentsTotal(segs, Ws, We, R, is_24_7) ==
    IF segs = <<>> THEN ZeroTotals
    ELSE LET S == Max2(Ws, Head(segs).s)
             E == Min2(We, Head(segs).e)
             rest == SegmentsTotal(Tail(segs), Ws, We, R, is_24_7)
         IN  IF S >= E THEN rest
             ELSE LET r == CalculateSegment(S, E, R, is_24_7)
                  IN  [up |-> r.up + rest.up, down |-> r.down + rest.down]

\* the loop `while current_day_processing_utc <= period_end_utc`
RECURSIVE DaysTotal(_, _, _, _, _, _)
DaysTotal(dayUtc, Ws, We, R, rules, off) ==
    IF dayUtc > We THEN ZeroTotals
    ELSE LET daily == SelectSeq(rules, LAMBDA r : r.day = Weekday(dayUtc))
             today == SegmentsTotal(BusinessHourSegments(dayUtc, daily, off),
                                    Ws, We, R, daily = <<>>)
             rest == DaysTotal(dayUtc + DAY, Ws, We, R, rules, off)
         IN  [up |-> today.up + rest.up, down |-> today.down + rest.down]

\* _calculate_metrics_for_period
CalculatePeriod(Ws, We, obs, rules, off, now) ==
    DaysTotal(FloorDay(Ws), Ws, We, RelevantObservations(obs, Ws, We, now),
              rules, off)

\* Python's round(): half to even.  n is a duration in half ticks, d the
\* number of ticks of the unit.
RoundHalfEven(n, d) ==
    LET q == n \div (2 * d)
        r == n % (2 * d)
    IN  IF r < d THEN q
        ELSE IF r > d THEN q + 1
        ELSE IF q % 2 = 0 THEN q ELSE q + 1

\* the three periods of _process_single_store_metrics
PeriodStart(name, now) ==
    CASE name = "last_hour" -> now - HOUR
      [] name = "last_day"  -> now - DAY
      [] name = "last_week" -> now - WEEK

Periods == {"last_hour", "last_day", "last_week"}

\* _process_single_store_metrics: the totals of each period, and the
\* published figures (minutes for last_hour, hundredths of an hour for
\* last_day and last_week).
ProcessSingleStore(now, obs, rules, off) ==
    [p \in Periods |->
        LET r == CalculatePeriod(PeriodStart(p, now), now, obs, rules, off, now)
        IN  [up |-> r.up, down |-> r.down,
             uptime   |-> IF p = "last_hour" THEN RoundHalfEven(r.up, MINUTE)
                          ELSE RoundHalfEven(r.up, HOUR \div 100),
             downtime |-> IF p = "last_hour" THEN RoundHalfEven(r.down, MINUTE)
                          ELSE RoundHalfEven(r.down, HOUR \div 100)]]

(***************************************************************************)
(* Inputs of the metrics engine.                                           *)
(***************************************************************************)
MaxTick == 3
MaxSegObs == 3
MaxObs == 2

Statuses == {"active", "inactive"}

\* store_data is sorted by timestamp_utc
Sorted(R) == \A i \in 1..Len(R) - 1 : R[i].t <= R[i + 1].t
StrictlySorted(R) == \A i \in 1..Len(R) - 1 : R[i].t < R[i + 1].t

Obs(t, st) == [t |-> t, status |-> st]

\* Scenario "status flip mid-window": a 60-minute segment of a day without
\* rules, observations at 10 minutes (active) and 20 minutes (inactive).
FlipSegment ==
    [kind |-> "segment", S |-> 0, E |-> HOUR, is_24_7 |-> TRUE,
     R |-> <<Obs(10 * MINUTE, "active"), Obs(20 * MINUTE, "inactive")>>]

\* The sequences of at most n observations with timestamps in T, sorted by
\* timestamp (strictly when strict is TRUE).
RECURSIVE SortedObs(_, _, _)
SortedObs(T, n, strict) ==
    IF n = 0 THEN {<<>>}
    ELSE LET shorter == SortedObs(T, n - 1, strict)
             mayFollow(s, o) ==
                 \/ s = <<>>
                 \/ o.t > s[Len(s)].t
                 \/ ~strict /\ o.t = s[Len(s)].t
         IN  shorter \cup
             UNION {{Append(s, o) : o \in {x \in [t : T, status : Statuses] :
                                             mayFollow(s, x)}} :
                    s \in {x \in shorter : Len(x) = n - 1}}

SegmentInputs ==
    {[kind |-> "segment", S |-> S, E |-> E, is_24_7 |-> f, R |-> R] :
        S \in 0..MaxTick, E \in 0..MaxTick, f \in BOOLEAN,
        R \in SortedObs(0..MaxTick, MaxSegObs, FALSE)}

\* `now`: a Thursday at 12:00 UTC and a Thursday at 00:40 UTC (the last
\* hour then starts on Wednesday).
Nows == {10 * DAY + 12 * HOUR, 10 * DAY + 40 * MINUTE}

\* The store's zone: America/Chicago in winter, UTC, Asia/Kolkata.
Chicago == FixedZone(0 - 6 * HOUR)
UTC == FixedZone(0)
Kolkata == FixedZone(330 * MINUTE)

Offsets == {Chicago, UTC, Kolkata}

Rule(d, s, e) == [day |-> d, start |-> s, end |-> e]

\* business hours of the store: none, Thursday 09:00-17:00, Thursday
\* 00:00-00:00 (24 hours), Wednesday 22:00-02:00
RuleChoices ==
    {<<>>,
     <<Rule(3, 9 * HOUR, 17 * HOUR)>>,
     <<Rule(3, 0, 0)>>,
     <<Rule(2, 22 * HOUR, 2 * HOUR)>>}

\* timestamps of the observations, relative to `now`
RelTimes ==
    {0 - 10 * DAY, 0 - 8 * DAY, 0 - 2 * HOUR, 0 - 50 * MINUTE,
     0 - 40 * MINUTE, 0 - 30 * MINUTE, 0, HOUR}

\* the observations of the store, sorted by timestamp_utc
ObsChoices(n) == SortedObs({n + d : d \in RelTimes}, MaxObs, TRUE)

\* Zones with a daylight-saving transition on the Sunday before `now`:
\* America/New_York on its spring-forward Sunday (02:00 EST -> 03:00 EDT, at
\* 07:00 UTC) and on its fall-back Sunday (02:00 EDT -> 01:00 EST, at 06:00
\* UTC), Europe/Berlin on its spring-forward Sunday (02:00 CET -> 03:00
\* CEST, at 01:00 UTC).  The other transition of the year is outside the
\* days of the model.
FarAway == 20 * DAY
TransitionSunday == 6 * DAY

NewYorkSpring ==
    Zone(0 - 5 * HOUR, 0 - 4 * HOUR, TransitionSunday + 7 * HOUR, FarAway)
NewYorkAutumn ==
    Zone(0 - 5 * HOUR, 0 - 4 * HOUR, 0 - FarAway, TransitionSunday + 6 * HOUR)
BerlinSpring ==
    Zone(HOUR, 2 * HOUR, TransitionSunday + HOUR, FarAway)

DstZones == {NewYorkSpring, NewYorkAutumn, BerlinSpring}

\* Rules around 02:00 local, for the weekday the day walk pairs with the
\* local Sunday: Sunday east of UTC, Monday west of it.
DstRuleChoices ==
    {<<Rule(d, 150 * MINUTE, 210 * MINUTE)>> : d \in {0, 6}}
    \cup {<<Rule(d, 150 * MINUTE, 4 * HOUR)>> : d \in {0, 6}}
    \cup {<<Rule(d, 90 * MINUTE, 3 * HOUR)>> : d \in {0, 6}}

StoreInput(n, tz, rules, obs) ==
    [kind |-> "store", now |-> n, off |-> tz, rules |-> rules, obs |-> obs]

BaseInputs ==
    UNION {{StoreInput(n, tz, rules, obs) :
               tz \in Offsets, rules \in RuleChoices, obs \in ObsChoices(n)} :
           n \in Nows}

DstInputs ==
    {StoreInput(10 * DAY + 12 * HOUR, tz, rules, obs) :
        tz \in DstZones, rules \in DstRuleChoices,
        obs \in ObsChoices(10 * DAY + 12 * HOUR)}

\* Scenario "store closed all week": rules Monday-Friday 09:00-17:00 local,
\* America/New_York (in winter and in summer), `now` a Saturday 12:00 UTC.
SaturdayNoon == 12 * DAY + 12 * HOUR

MonFri == [d \in 1..5 |-> Rule(d - 1, 9 * HOUR, 17 * HOUR)]

ClosedWeekInputs ==
    {StoreInput(SaturdayNoon, tz, MonFri, obs) :
        tz \in {NewYorkSpring, NewYorkAutumn}, obs \in ObsChoices(SaturdayNoon)}

\* Scenario "overnight rule": the rule Friday 22:00-02:00, `now` a
\* Saturday 02:00 UTC (the last hour starts on Saturday 01:00).
SaturdayEarly == 12 * DAY + 2 * HOUR

FridayOvernight == <<Rule(4, 22 * HOUR, 2 * HOUR)>>

\* the same store, open on Saturday 09:00-17:00 as well
FridaySaturday == <<Rule(4, 22 * HOUR, 2 * HOUR), Rule(5, 9 * HOUR, 17 * HOUR)>>

OvernightInputs ==
    {StoreInput(SaturdayEarly, tz, rules, obs) :
        tz \in Offsets, rules \in {FridayOvernight, FridaySaturday},
        obs \in ObsChoices(SaturdayEarly)}

StoreInputs == BaseInputs \cup DstInputs \cup ClosedWeekInputs \cup OvernightInputs

EvalSegment ==
    /\ mIn.kind = "segment"
    /\ mOut = NoOutput
    /\ mOut' = [kind |-> "segment",
                r |-> CalculateSegment(mIn.S, mIn.E, mIn.R, mIn.is_24_7)]
    /\ UNCHANGED <<path, table, chunk_size, report, cache, pc, exc, found,
                   retries, delays, chunks, dispatched, combineRuns, skipped,
                   mIn>>
    /\ UNCHANGED dataVars /\ UNCHANGED loadVars

EvalStore ==
    /\ mIn.kind = "store"
    /\ mOut = NoOutput
    /\ mOut' = [kind |-> "store",
                res |-> ProcessSingleStore(mIn.now, mIn.obs, mIn.rules, mIn.off)]
    /\ UNCHANGED <<path, table, chunk_size, report, cache, pc, exc, found,
                   retries, delays, chunks, dispatched, combineRuns, skipped,
                   mIn>>
    /\ UNCHANGED dataVars /\ UNCHANGED loadVars

InitMetrics ==
    /\ mIn \in {i \in SegmentInputs : i.S < i.E} \cup {FlipSegment} \cup StoreInputs
    /\ mOut = NoOutput
    /\ path = "none"
    /\ table = <<>>
    /\ chunk_size = 0
    /\ cache = {}
    /\ report = NoReport
    /\ pc = "done"
    /\ exc = "none"
    /\ found = FALSE
    /\ retries = 0
    /\ delays = <<>>
    /\ chunks = <<>>
    /\ dispatched = FALSE
    /\ combineRuns = 0
    /\ skipped = {}
    /\ IdleData
    /\ IdleLoad

NextMetrics == EvalSegment \/ EvalStore

SpecMetrics == InitMetrics /\ [][NextMetrics]_vars

(***************************************************************************)
(* Properties of the metrics engine.                                       *)
(***************************************************************************)

\* C7: for every segment [S, E) with S < E, every sorted observation
\* sequence R and either value of is_24_7, the segment evaluator returns
\* uptime >= 0 and downtime >= 0 with uptime + downtime <= E - S.
C7_SegmentWithinLength ==
    mOut.kind = "segment" =>
        /\ mOut.r.up >= 0
        /\ mOut.r.down >= 0
        /\ mOut.r.up + mOut.r.down <= DurationMs(mIn.S, mIn.E)

C7_Witness ==
    /\ mOut.kind = "segment"
    /\ Len(RowsInSegment(mIn.R, mIn.S, mIn.E)) >= 2
    /\ mOut.r.up > 0
    /\ mOut.r.down > 0
    /\ mOut.r.up + mOut.r.down = DurationMs(mIn.S, mIn.E)

\* The case of C8: no observation at or before the segment start, and a
\* first observation inside the segment.
NoneInitialCase ==
    /\ mOut.kind = "segment"
    /\ InitialStatus(mIn.R, mIn.S) = "None"
    /\ RowsInSegment(mIn.R, mIn.S, mIn.E) # <<>>

FirstInside == RowsInSegment(mIn.R, mIn.S, mIn.E)[1]

\* The totals of the segment from the first observation on.
AfterFirst ==
    IF FirstInside.t < mIn.E
    THEN CalculateSegment(FirstInside.t, mIn.E, mIn.R, mIn.is_24_7)
    ELSE ZeroTotals

\* Scenario 1: a store without rules in UTC, one active observation at
\* now - 30 min, the last hour inside one UTC day.
ScenarioOne ==
    /\ mOut.kind = "store"
    /\ mIn.off = UTC
    /\ mIn.rules = <<>>
    /\ mIn.obs = <<Obs(mIn.now - 30 * MINUTE, "active")>>
    /\ FloorDay(mIn.now - HOUR) = FloorDay(mIn.now)

\* Scenario 6: the 60-minute segment with the status flip.
ScenarioSix == mOut.kind = "segment" /\ mIn = FlipSegment

\* C8 (as amended): with no observation at or before the segment start, the
\* interval from the segment start to the first observation inside the
\* segment is attributed to the status of that observation; scenario 1
\* gives uptime 60 and downtime 0 minutes, scenario 6 uptime 15 and
\* downtime 45 minutes.
C8_FirstIntervalToFirstStatus ==
    /\ NoneInitialCase =>
         mOut.r = [up |-> Credit(AfterFirst, FirstInside.status,
                                 DurationMs(mIn.S, FirstInside.t)).up,
                   down |-> Credit(AfterFirst, FirstInside.status,
                                   DurationMs(mIn.S, FirstInside.t)).down]
    /\ ScenarioOne =>
         /\ mOut.res["last_hour"].uptime = 60
         /\ mOut.res["last_hour"].downtime = 0
    /\ ScenarioSix =>
         /\ RoundHalfEven(mOut.r.up, MINUTE) = 15
         /\ RoundHalfEven(mOut.r.down, MINUTE) = 45

C8_Witness ==
    /\ NoneInitialCase
    /\ FirstInside.status = "active"
    /\ FirstInside.t > mIn.S
    /\ Len(mIn.R) >= 2
    /\ mIn.R[2].t > mIn.R[1].t
    /\ mIn.R[2].t < mIn.E
    /\ mIn.R[2].status = "inactive"
    /\ mOut.r.up > DurationMs(mIn.S, FirstInside.t)
    /\ mOut.r.down > 0

\* C8 (as claimed): with no observation at or before the segment start, the
\* interval from the segment start to the first observation inside the
\* segment is attributed to downtime; scenario 1 gives uptime 30 and
\* downtime 30 minutes, scenario 6 uptime 5 and downtime 55 minutes.
C8_FirstIntervalToDowntime ==
    /\ NoneInitialCase =>
         mOut.r = [up |-> AfterFirst.up,
                   down |-> AfterFirst.down + DurationMs(mIn.S, FirstInside.t)]
    /\ ScenarioOne =>
         /\ mOut.res["last_hour"].uptime = 30
         /\ mOut.res["last_hour"].downtime = 30
    /\ ScenarioSix =>
         /\ RoundHalfEven(mOut.r.up, MINUTE) = 5
         /\ RoundHalfEven(mOut.r.down, MINUTE) = 55

\* The observations without the i-th.
Without(obs, i) == SubSeq(obs, 1, i - 1) \o SubSeq(obs, i + 1, Len(obs))

\* C9: removing an observation earlier than W_s - 8 days or later than W_e
\* does not change the uptime and downtime of the window [W_s, W_e].
C9_Pruning ==
    mOut.kind = "store" =>
        \A p \in Periods : \A i \in 1..Len(mIn.obs) :
            (\/ mIn.obs[i].t < PeriodStart(p, mIn.now) - 8 * DAY
             \/ mIn.obs[i].t > mIn.now) =>
                LET r == CalculatePeriod(PeriodStart(p, mIn.now), mIn.now,
                                         Without(mIn.obs, i), mIn.rules,
                                         mIn.off, mIn.now)
                IN  /\ r.up = mOut.res[p].up
                    /\ r.down = mOut.res[p].down

\* The published length of the window of period p.
FullWindow(p) ==
    CASE p = "last_hour" -> 60
      [] p = "last_day"  -> 2400
      [] p = "last_week" -> 16800

\* C10: for a store without business-hour rules and without observations
\* inside the window (and none before it that the eight-day rule keeps),
\* the window's uptime is 0 and its downtime is the full window length, for
\* last_hour, last_day and last_week.
C10_EmptyWindowAllDowntime ==
    (mOut.kind = "store" /\ mIn.rules = <<>>) =>
        \A p \in Periods :
            (/\ PeriodObservations(mIn.obs, PeriodStart(p, mIn.now), mIn.now) = <<>>
             /\ ObsBeforePeriod(mIn.obs, PeriodStart(p, mIn.now), mIn.now) = <<>>)
            => /\ mOut.res[p].uptime = 0
               /\ mOut.res[p].downtime = FullWindow(p)

\* The effective intervals the day loop hands to the segment evaluator:
\* (max(period_start, bh_start), min(period_end, bh_end)) when start < end.
RECURSIVE EffectiveIntervals(_, _, _, _, _)
EffectiveIntervals(dayUtc, Ws, We, rules, off) ==
    IF dayUtc > We THEN <<>>
    ELSE LET daily == SelectSeq(rules, LAMBDA r : r.day = Weekday(dayUtc))
             segs == BusinessHourSegments(dayUtc, daily, off)
             eff == [i \in 1..Len(segs) |->
                        [s |-> Max2(Ws, segs[i].s), e |-> Min2(We, segs[i].e)]]
         IN  SelectSeq(eff, LAMBDA x : x.s < x.e)
                 \o EffectiveIntervals(dayUtc + DAY, Ws, We, rules, off)

\* The length of the union of a sequence of intervals.
RECURSIVE CoveredLength(_, _, _)
CoveredLength(points, all, segs) ==
    IF points = {} THEN 0
    ELSE LET p == CHOOSE x \in points : TRUE
             later == {q \in all : q > p}
             nxt == CHOOSE q \in later : \A r \in later : q <= r
             covered == \E i \in 1..Len(segs) : segs[i].s <= p /\ nxt <= segs[i].e
         IN  (IF later # {} /\ covered THEN nxt - p ELSE 0)
                 + CoveredLength(points \ {p}, all, segs)

UnionLength(segs) ==
    LET all == {segs[i].s : i \in 1..Len(segs)} \cup {segs[i].e : i \in 1..Len(segs)}
    IN  CoveredLength(all, all, segs)

\* C11: for every window, uptime + downtime does not exceed the business-
\* hour time inside the window (the length of the union of the business-hour
\* intervals cut to the window), and so does not exceed W_e - W_s:
\* overlapping intervals are not counted twice.
C11_NoDoubleCounting ==
    mOut.kind = "store" =>
        \A p \in Periods :
            LET Ws == PeriodStart(p, mIn.now)
                segs == EffectiveIntervals(FloorDay(Ws), Ws, mIn.now,
                                           mIn.rules, mIn.off)
            IN  /\ mOut.res[p].up + mOut.res[p].down <= 2 * UnionLength(segs)
                /\ mOut.res[p].up + mOut.res[p].down <= DurationMs(Ws, mIn.now)

\* The days of the day walk of the window [Ws, We].
WalkDays(Ws, We) == {d \in {FloorDay(Ws) + k * DAY : k \in 0..8} : d <= We}

\* Localizing the start or the end of the rule on the local date hits an
\* ambiguous or a non-existent local time.
HitsDstBoundary(rule, date, tz) ==
    LET start == date * DAY + rule.start
        end == IF rule.end <= rule.start THEN (date + 1) * DAY + rule.end
               ELSE date * DAY + rule.end
    IN  \/ Ambiguous(start, tz) \/ NonExistent(start, tz)
        \/ Ambiguous(end, tz) \/ NonExistent(end, tz)

\* C13: on every day of the walk, a rule whose local start or end is
\* ambiguous or non-existent on that day's local date gets no interval from
\* the expander: it emits one interval for each of the other rules only.
C13_DstRuleDropped ==
    mOut.kind = "store" =>
        \A d \in WalkDays(mIn.now - WEEK, mIn.now) :
            LET daily == SelectSeq(mIn.rules, LAMBDA r : r.day = Weekday(d))
                date == LocalDate(d, mIn.off)
            IN  daily # <<>> =>
                    Len(BusinessHourSegments(d, daily, mIn.off)) =
                        Cardinality({i \in 1..Len(daily) :
                                        ~HitsDstBoundary(daily[i], date, mIn.off)})

\* Scenario 2: America/New_York, rules Monday-Friday 09:00-17:00 only, now
\* a Saturday 12:00 UTC.
ScenarioTwo ==
    /\ mOut.kind = "store"
    /\ mIn.off \in {NewYorkSpring, NewYorkAutumn}
    /\ mIn.rules = MonFri
    /\ mIn.now = SaturdayNoon

\* C19: in scenario 2 the last_hour window has uptime 0 and downtime 0,
\* whatever the observations are.
C19_ClosedOnSaturday ==
    ScenarioTwo =>
        /\ mOut.res["last_hour"].up = 0
        /\ mOut.res["last_hour"].down = 0
        /\ mOut.res["last_hour"].uptime = 0
        /\ mOut.res["last_hour"].downtime = 0

C19_Witness ==
    /\ ScenarioTwo
    /\ Len(PeriodObservations(mIn.obs, mIn.now - HOUR, mIn.now)) = 2
    /\ mOut.res["last_hour"].uptime = 0
    /\ mOut.res["last_hour"].downtime = 0
    /\ mOut.res["last_day"].up + mOut.res["last_day"].down > 0

\* The states of the observation loop: before the first row, and after each.
RECURSIVE LoopTrace(_, _)
LoopTrace(rows, st) ==
    IF rows = <<>> THEN <<st>>
    ELSE <<st>> \o LoopTrace(Tail(rows), ObsStep(st, Head(rows)))

\* What an iteration added to the total of a status.
Added(before, after, status) ==
    IF status = "active" THEN after.up - before.up ELSE after.down - before.down

Other(status) == IF status = "active" THEN "inactive" ELSE "active"

SegRows == RowsInSegment(mIn.R, mIn.S, mIn.E)
SegTrace == LoopTrace(SegRows, [ptr |-> mIn.S, last |-> InitialStatus(mIn.R, mIn.S),
                                up |-> 0, down |-> 0])

FlipStep(k) ==
    /\ SegTrace[k].ptr < SegRows[k].t
    /\ SegTrace[k].last # "None"
    /\ SegTrace[k].last # SegRows[k].status

SameStep(k) ==
    /\ SegTrace[k].ptr < SegRows[k].t
    /\ SegTrace[k].last = SegRows[k].status

\* C20: for each observation o with cursor < o.t <= E and D = o.t - cursor:
\* a defined last_status different from o.status gets exactly D/2 and
\* o.status gets D/2; a last_status equal to o.status gets all of D; after
\* the observation cursor = o.t and last_status = o.status.  (Durations are
\* in half ticks: D/2 is o.t - cursor half-tick pairs.)
C20_MidpointSplit ==
    (mOut.kind = "segment" /\ mIn.R # <<>>) =>
        /\ \A k \in 1..Len(SegRows) :
             LET a == SegTrace[k]
                 b == SegTrace[k + 1]
                 o == SegRows[k]
             IN  /\ FlipStep(k) =>
                        /\ 2 * Added(a, b, a.last) = DurationMs(a.ptr, o.t)
                        /\ 2 * Added(a, b, o.status) = DurationMs(a.ptr, o.t)
                 /\ SameStep(k) =>
                        /\ Added(a, b, a.last) = DurationMs(a.ptr, o.t)
                        /\ Added(a, b, Other(a.last)) = 0
                 /\ b.ptr = o.t
                 /\ b.last = o.status
        /\ LET end == Remainder(SegTrace[Len(SegRows) + 1], mIn.E)
           IN  mOut.r = [up |-> end.up, down |-> end.down]

C20_Witness ==
    /\ mOut.kind = "segment"
    /\ mIn.R # <<>>
    /\ \E k \in 1..Len(SegRows) :
         FlipStep(k) /\ (SegRows[k].t - SegTrace[k].ptr) % 2 = 1
    /\ \E k \in 1..Len(SegRows) : SameStep(k)
    /\ mOut.r.up % 2 = 1

(***************************************************************************)
(*              Report runs over tables that data loads change             *)
(*                                                                         *)
(* The three tables hold one of the data sets below (version 1 or 2) or    *)
(* are empty (version 0).  A data load empties the three tables in one     *)
(* transaction and then fills each of them in a task of its own.  Report   *)
(* runs follow one another, each of them interleaved with the data load;   *)
(* `now` is the configured CURRENT_TIMESTAMP_OVERRIDE, so that every run   *)
(* uses the same cache keys.                                               *)
(***************************************************************************)
MaxRuns == 3
MaxLoads == 1

Versions == {1, 2}

NowOverride == 10 * DAY + 12 * HOUR

\* StoreStatus rows: the store_id column in row order, and the observations
\* of each store.
StatusIds(v) ==
    CASE v = 1 -> <<"A", "B", "A">>
      [] v = 2 -> <<"A", "C">>
      [] OTHER -> <<>>

StatusTable(v) ==
    CASE v = 1 -> [s \in {"A", "B"} |->
                     IF s = "A"
                     THEN <<Obs(NowOverride - 50 * MINUTE, "inactive"),
                            Obs(NowOverride - 30 * MINUTE, "active")>>
                     ELSE <<Obs(NowOverride - 30 * MINUTE, "inactive")>>]
      [] v = 2 -> [s \in {"A", "C"} |->
                     IF s = "A"
                     THEN <<Obs(NowOverride - 30 * MINUTE, "inactive")>>
                     ELSE <<Obs(NowOverride - 40 * MINUTE, "active")>>]
      [] OTHER -> [s \in {} |-> <<>>]

\* BusinessHours rows of each store that has any.
HoursTable(v) ==
    CASE v = 1 -> [s \in {"B"} |-> <<Rule(3, 9 * HOUR, 17 * HOUR)>>]
      [] v = 2 -> [s \in {"A"} |-> <<Rule(3, 9 * HOUR, 17 * HOUR)>>]
      [] OTHER -> [s \in {} |-> <<>>]

\* StoreTimezone rows: timezone_str of each store that has a row.
TzTable(v) ==
    CASE v = 1 -> [s \in {"A", "B"} |->
                     IF s = "A" THEN "UTC" ELSE "Mars/Olympus_Mons"]
      [] v = 2 -> [s \in {"A"} |-> "America/Chicago"]
      [] OTHER -> [s \in {} |-> ""]

\* the zones pytz knows, among the names of the data sets
KnownZones == [name \in {"UTC", "America/Chicago"} |->
                 IF name = "UTC" THEN UTC ELSE Chicago]

\* _determine_store_timezone: the zone of the store; pytz.timezone raises
\* UnknownTimeZoneError, a KeyError, for a name it does not know.
DetermineStoreTimezone(s, tzt) ==
    IF DOMAIN tzt = {} THEN [raised |-> FALSE, zone |-> Chicago]
    ELSE LET name == IF s \in DOMAIN tzt THEN tzt[s] ELSE "America/Chicago"
         IN  IF name \in DOMAIN KnownZones
             THEN [raised |-> FALSE, zone |-> KnownZones[name]]
             ELSE [raised |-> TRUE, zone |-> Chicago]

\* the report line: store_id and the six published figures
Line(s, res) ==
    [store |-> s,
     figures |-> <<res["last_hour"].uptime, res["last_day"].uptime,
                   res["last_week"].uptime, res["last_hour"].downtime,
                   res["last_day"].downtime, res["last_week"].downtime>>]

\* The rest of _process_single_store_metrics once the zone is known.  An
\* empty table gives a frame without columns, and selecting timestamp_utc or
\* day_of_week from it raises KeyError.
ComputeLine(s, snap, zone) ==
    LET st == StatusTable(snap.status)
        hr == HoursTable(snap.hours)
    IN  IF DOMAIN st = {} \/ DOMAIN hr = {}
        THEN [raised |-> TRUE, line |-> NoLine]
        ELSE [raised |-> FALSE,
              line |-> Line(s, ProcessSingleStore(
                                  NowOverride,
                                  IF s \in DOMAIN st THEN st[s] ELSE <<>>,
                                  IF s \in DOMAIN hr THEN hr[s] ELSE <<>>,
                                  zone))]

\* _process_single_store_metrics on the tables of a snapshot
StoreLine(s, snap) ==
    LET z == DetermineStoreTimezone(s, TzTable(snap.tz))
    IN  IF z.raised THEN [raised |-> TRUE, line |-> NoLine]
        ELSE ComputeLine(s, snap, z.zone)

\* The store loop of generate_report_task over the tables of a snapshot: a
\* cached line is used as it is, a computed line is cached, an exception
\* leaves the loop.
RECURSIVE DataSeqLoop(_, _, _)
DataSeqLoop(ids, c, snap) ==
    IF ids = <<>> THEN [lines |-> <<>>, cache |-> c, raised |-> FALSE]
    ELSE LET s == Head(ids) IN
         IF c[s] # NoLine
         THEN LET rest == DataSeqLoop(Tail(ids), c, snap)
              IN  [rest EXCEPT !.lines = <<c[s]>> \o @]
         ELSE LET r == StoreLine(s, snap) IN
              IF r.raised
              THEN [lines |-> <<>>, cache |-> c, raised |-> TRUE]
              ELSE LET rest == DataSeqLoop(Tail(ids), [c EXCEPT ![s] = r.line], snap)
                   IN  [rest EXCEPT !.lines = <<r.line>> \o @]

\* The store loop of process_store_chunk_task over the tables of a snapshot:
\* a KeyError skips the store.
RECURSIVE DataChunkLoop(_, _)
DataChunkLoop(ids, snap) ==
    IF ids = <<>> THEN <<>>
    ELSE LET r == StoreLine(Head(ids), snap)
         IN  (IF r.raised THEN <<>> ELSE <<r.line>>)
                 \o DataChunkLoop(Tail(ids), snap)

\* _load_all_data: the three tables as the task that calls it finds them
LoadAllData == db

\* A run that is over, as kept for the properties: what it wrote to the
\* report, the snapshots its tasks computed from, and the tables as they
\* were during the run (NoSnapshot when a data load changed them meanwhile).
Finished(r, status, lines, snaps) ==
    [path |-> r.path, status |-> status, lines |-> lines, snaps |-> snaps,
     tables |-> r.tables]

\* trigger_report / trigger_report_parallel and the start of the task
StartRun ==
    /\ run = NoRun
    /\ Len(hist) < MaxRuns
    /\ \E p \in {"sequential", "parallel"} :
       \E cs \in IF p = "parallel" THEN {1, 2} ELSE {0} :
          run' = [path |-> p, pc |-> "load", chunk_size |-> cs,
                  snap |-> NoSnapshot, tasks |-> <<>>, tables |-> db]
    /\ UNCHANGED <<db, loader, dcache, hist>>
    /\ UNCHANGED runVars
    /\ UNCHANGED metricVars /\ UNCHANGED loadVars

\* generate_report_task / generate_report_parallel_task
EntryStep ==
    /\ run.pc = "load"
    /\ LET snap == LoadAllData IN
       IF StatusIds(snap.status) = <<>>
       THEN \* "StoreStatus data is empty."
            /\ hist' = Append(hist, Finished(run, "Failed", <<>>, {snap}))
            /\ run' = NoRun
            /\ UNCHANGED dcache
       ELSE IF run.path = "sequential"
       THEN LET r == DataSeqLoop(Unique(StatusIds(snap.status)), dcache, snap) IN
            /\ dcache' = r.cache
            /\ hist' = Append(hist,
                         IF r.raised
                         THEN Finished(run, "Failed", <<>>, {snap})
                         ELSE Finished(run, "Complete", r.lines, {snap}))
            /\ run' = NoRun
       ELSE /\ run' = [run EXCEPT
                         !.snap = snap,
                         !.pc = "chord",
                         !.tasks =
                            LET cks == StoreChunks(Unique(StatusIds(snap.status)),
                                                   run.chunk_size)
                            IN  [i \in 1..Len(cks) |->
                                   [ids |-> cks[i], snap |-> NoSnapshot,
                                    state |-> "pending", result |-> <<>>]]]
            /\ UNCHANGED <<dcache, hist>>
    /\ UNCHANGED <<db, loader>>
    /\ UNCHANGED runVars
    /\ UNCHANGED metricVars /\ UNCHANGED loadVars

\* process_store_chunk_task for chunk i, with its own _load_all_data
ChunkStep(i) ==
    /\ run.pc = "chord"
    /\ run.tasks[i].state = "pending"
    /\ LET snap == LoadAllData IN
       run' = [run EXCEPT !.tasks[i].snap = snap,
                          !.tasks[i].state = "succeeded",
                          !.tasks[i].result =
                              DataChunkLoop(run.tasks[i].ids, snap)]
    /\ UNCHANGED <<db, loader, dcache, hist>>
    /\ UNCHANGED runVars
    /\ UNCHANGED metricVars /\ UNCHANGED loadVars

\* combine_report_results, applied by the chord
CombineData ==
    /\ run.pc = "chord"
    /\ \A i \in 1..Len(run.tasks) : run.tasks[i].state = "succeeded"
    /\ hist' = Append(hist,
                 Finished(run, "Complete",
                          Flatten([i \in 1..Len(run.tasks) |-> run.tasks[i].result]),
                          {run.snap} \cup {run.tasks[i].snap : i \in 1..Len(run.tasks)}))
    /\ run' = NoRun
    /\ UNCHANGED <<db, loader, dcache>>
    /\ UNCHANGED runVars
    /\ UNCHANGED metricVars /\ UNCHANGED loadVars

\* a running report run whose tables a data load changes
Changed(r) == IF r = NoRun THEN r ELSE [r EXCEPT !.tables = NoSnapshot]

\* load_csv_data_parallel_task: the three tables are emptied in one
\* transaction and the loading tasks are dispatched.
StartLoad ==
    /\ loader.pc = "idle"
    /\ loader.loads < MaxLoads
    /\ \E v \in Versions :
         loader' = [pc |-> "loading", csv |-> v,
                    todo |-> {"status", "hours", "tz"},
                    loads |-> loader.loads + 1]
    /\ db' = EmptyTables
    /\ run' = Changed(run)
    /\ UNCHANGED <<dcache, hist>>
    /\ UNCHANGED runVars
    /\ UNCHANGED metricVars /\ UNCHANGED loadVars

\* load_store_status_chunk_task, load_business_hours_task and
\* load_timezones_task: each fills its table in a transaction of its own.
LoadTable(t) ==
    /\ loader.pc = "loading"
    /\ t \in loader.todo
    /\ db' = [db EXCEPT ![t] = loader.csv]
    /\ loader' = [loader EXCEPT !.todo = @ \ {t},
                                !.pc = IF loader.todo = {t} THEN "idle" ELSE @]
    /\ run' = Changed(run)
    /\ UNCHANGED <<dcache, hist>>
    /\ UNCHANGED runVars
    /\ UNCHANGED metricVars /\ UNCHANGED loadVars

InitData ==
    /\ \E v \in Versions : db = Snapshot(v, v, v)
    /\ loader = IdleLoader
    /\ dcache = EmptyCache
    /\ run = NoRun
    /\ hist = <<>>
    /\ path = "none"
    /\ table = <<>>
    /\ chunk_size = 0
    /\ cache = {}
    /\ report = NoReport
    /\ pc = "done"
    /\ exc = "none"
    /\ found = FALSE
    /\ retries = 0
    /\ delays = <<>>
    /\ chunks = <<>>
    /\ dispatched = FALSE
    /\ combineRuns = 0
    /\ skipped = {}
    /\ mIn = NoInput
    /\ mOut = NoOutput
    /\ IdleLoad

NextData ==
    \/ StartRun
    \/ EntryStep
    \/ \E i \in 1..Len(run.tasks) : ChunkStep(i)
    \/ CombineData
    \/ StartLoad
    \/ \E t \in {"status", "hours", "tz"} : LoadTable(t)

SpecData == InitData /\ [][NextData]_vars

(***************************************************************************)
(* Properties of report runs over the tables.                              *)
(***************************************************************************)
Runs == 1..Len(hist)

\* the run computed from the tables as they were when it started, and no
\* data load changed them while it ran
Stable(k) == hist[k].tables # NoSnapshot /\ hist[k].snaps = {hist[k].tables}

\* C12: two Complete runs against identical tables (and the same `now`
\* override) hold the same set of rows, whatever the cache held and whatever
\* the path and the chunking.
C12_Idempotent ==
    \A i \in Runs : \A j \in Runs :
        (/\ i < j
         /\ Stable(i) /\ Stable(j)
         /\ hist[i].tables = hist[j].tables
         /\ hist[i].status = "Complete" /\ hist[j].status = "Complete")
        => Range(hist[i].lines) = Range(hist[j].lines)

\* the stores of a snapshot whose timezone_str is not a zone pytz knows
UnknownZoneStores(snap) ==
    {s \in Range(StatusIds(snap.status)) :
        /\ s \in DOMAIN TzTable(snap.tz)
        /\ TzTable(snap.tz)[s] \notin DOMAIN KnownZones}

\* C14: a store whose timezone string is not a known zone is computed with
\* America/Chicago: the run reaches Complete and holds the row of the store
\* computed in that zone, on both paths.
C14_UnknownZoneDefaults ==
    \A k \in Runs : Stable(k) =>
        \A s \in UnknownZoneStores(hist[k].tables) :
            LET expected == ComputeLine(s, hist[k].tables, Chicago)
            IN  ~expected.raised =>
                    /\ hist[k].status = "Complete"
                    /\ expected.line \in Range(hist[k].lines)

\* The rows of the stores of a chunk that were not skipped, in order.
RECURSIVE RowsOfOthers(_)
RowsOfOthers(ids) ==
    IF ids = <<>> THEN <<>>
    ELSE (IF Head(ids) \in skipped THEN <<>> ELSE <<ReportLine(Head(ids))>>)
             \o RowsOfOthers(Tail(ids))

\* C15: a chunk task in which the computation of a store raised (any
\* exception) has skipped that store, has processed the other stores in
\* order and has returned their rows: the chunk task succeeded.
C15_StoreExceptionSkipped ==
    \A i \in 1..Len(chunks) :
        (chunks[i].state # "pending" /\ Range(chunks[i].ids) \cap skipped # {}) =>
            /\ chunks[i].state = "succeeded"
            /\ chunks[i].result = RowsOfOthers(chunks[i].ids)

\* C16: the rows of a Complete sequential run are the rows computed from the
\* tables the run loaded, as with an empty cache: a cache hit gives the row a
\* cache miss would compute.
C16_CacheAdvisory ==
    \A k \in Runs :
        (hist[k].path = "sequential" /\ hist[k].status = "Complete") =>
            \A snap \in hist[k].snaps :
                hist[k].lines =
                    DataSeqLoop(Unique(StatusIds(snap.status)), EmptyCache, snap).lines

\* C17: all tasks of one run compute from one and the same snapshot of the
\* tables: in the parallel path the store-id list and every chunk see the
\* same table contents, also when a data load runs during the run.
C17_ConsistentRead ==
    \A k \in Runs : Cardinality(hist[k].snaps) = 1

\* C18: the body of a Complete report joins the header and the rows with
\* the line feed character, on both paths.
C18_NewlineSeparator ==
    report.status = "Complete" => report.sep = "\n"

\* The length of the effective intervals of the days without rules, in the
\* day walk of the window [Ws, We].
RECURSIVE FreeDaysLength(_, _, _, _, _)
FreeDaysLength(dayUtc, Ws, We, rules, off) ==
    IF dayUtc > We THEN 0
    ELSE LET daily == SelectSeq(rules, LAMBDA r : r.day = Weekday(dayUtc))
             segs == BusinessHourSegments(dayUtc, daily, off)
             S == Max2(Ws, segs[1].s)
             E == Min2(We, segs[1].e)
         IN  (IF daily = <<>> /\ S < E THEN DurationMs(S, E) ELSE 0)
                 + FreeDaysLength(dayUtc + DAY, Ws, We, rules, off)

\* C21: with an empty frame R, a segment of a day without rules is charged
\* entirely to downtime (downtime = E - S, uptime = 0) and a segment of a
\* day with rules contributes 0 to both totals; so a window with an empty
\* frame has uptime 0 and the downtime of its segments of days without
\* rules.
C21_EmptyFrame ==
    /\ (mOut.kind = "segment" /\ mIn.R = <<>>) =>
          mOut.r = IF mIn.is_24_7
                   THEN [up |-> 0, down |-> DurationMs(mIn.S, mIn.E)]
                   ELSE [up |-> 0, down |-> 0]
    /\ mOut.kind = "store" =>
          \A p \in Periods :
              LET Ws == PeriodStart(p, mIn.now) IN
              RelevantObservations(mIn.obs, Ws, mIn.now, mIn.now) = <<>> =>
                  /\ mOut.res[p].up = 0
                  /\ mOut.res[p].down =
                         FreeDaysLength(FloorDay(Ws), Ws, mIn.now, mIn.rules, mIn.off)

C21_Witness ==
    /\ mOut.kind = "store"
    /\ mIn.obs = <<>>
    /\ mIn.rules # <<>>
    /\ mOut.res["last_week"].down > 0
    /\ mOut.res["last_hour"].down = 0
    /\ Len(EffectiveIntervals(FloorDay(mIn.now - HOUR), mIn.now - HOUR, mIn.now,
                              mIn.rules, mIn.off)) > 0

\* The latest observation strictly before the window start is in the frame
\* of the window unless it is more than eight days older than `now`.
EightDayDiscard ==
    mOut.kind = "store" =>
        \A p \in Periods :
            LET Ws == PeriodStart(p, mIn.now)
                before == SelectSeq(mIn.obs, LAMBDA o : o.t < Ws)
                R == RelevantObservations(mIn.obs, Ws, mIn.now, mIn.now)
            IN  before # <<>> =>
                    LET last == before[Len(before)] IN
                    /\ (\E i \in 1..Len(R) : R[i] = last)
                           <=> ~(mIn.now - last.t > 8 * DAY)
                    /\ mIn.now - last.t > 8 * DAY =>
                           \A S \in {Ws, FloorDay(mIn.now)} :
                               InitialStatus(R, S) = "None"
                                   \/ \E i \in 1..Len(R) :
                                          /\ R[i].t >= Ws
                                          /\ R[i].status = InitialStatus(R, S)

\* Scenario "stale-only observation": no rules, one active observation 10
\* days before `now`.
StaleOnly ==
    /\ mIn.kind = "store"
    /\ mIn.rules = <<>>
    /\ mIn.obs = <<Obs(mIn.now - 10 * DAY, "active")>>

\* C22: the latest observation strictly before the window start is discarded
\* if and only if now - t > 8 days (it is kept at exactly 8 days) and is then
\* no segment's initial status; for a store with no rules and a single
\* active observation 10 days before `now` the frame is empty and the
\* last_week window has uptime 0 and is downtime for its whole length (168
\* hours).
C22_EightDayRule ==
    /\ EightDayDiscard
    /\ (StaleOnly /\ mOut.kind = "store") =>
          /\ RelevantObservations(mIn.obs, mIn.now - WEEK, mIn.now, mIn.now) = <<>>
          /\ mOut.res["last_week"].uptime = 0
          /\ mOut.res["last_week"].downtime = 168 * 100

\* The wall-clock time the zone shows at a UTC instant.
LocalOf(t, off) == t + UtcOffset(off, t)

\* C23: for every rule of the day the expander emits one interval; it starts
\* on the target local date at start_local; when end_local <= start_local
\* it ends on the following local date at end_local (24 hours of wall-clock
\* time when end_local = start_local), otherwise on the target local date;
\* Friday 22:00-02:00 in UTC yields [Fri 22:00, Sat 02:00).
C23_OvernightRule ==
    mOut.kind = "store" =>
        \A d \in WalkDays(mIn.now - WEEK, mIn.now) :
            LET date == LocalDate(d, mIn.off)
                daily == SelectSeq(mIn.rules, LAMBDA r : r.day = Weekday(d))
                segs == BusinessHourSegments(d, daily, mIn.off)
            IN  daily # <<>> =>
                  /\ Len(segs) = Len(daily)
                  /\ \A i \in 1..Len(daily) :
                        LET startLocal == date * DAY + daily[i].start
                            endDate == IF daily[i].end <= daily[i].start
                                       THEN date + 1 ELSE date
                            endLocal == endDate * DAY + daily[i].end
                        IN  /\ ~NonExistent(startLocal, mIn.off) =>
                                   LocalOf(segs[i].s, mIn.off) = startLocal
                            /\ ~NonExistent(endLocal, mIn.off) =>
                                   LocalOf(segs[i].e, mIn.off) = endLocal
                            /\ daily[i].end = daily[i].start =>
                                   endLocal - startLocal = DAY

C23_Witness ==
    /\ mOut.kind = "store"
    /\ mIn.off = UTC
    /\ mIn.rules = FridayOvernight
    /\ BusinessHourSegments(11 * DAY, mIn.rules, mIn.off)
           = <<[s |-> 11 * DAY + 22 * HOUR, e |-> 12 * DAY + 2 * HOUR]>>
    /\ 11 * DAY \in WalkDays(mIn.now - WEEK, mIn.now)

\* The frame with, of the observations of one timestamp, only the last in
\* iteration order.
RECURSIVE LastOfEach(_)
LastOfEach(R) ==
    IF Len(R) <= 1 THEN R
    ELSE IF R[1].t = R[2].t THEN LastOfEach(Tail(R))
         ELSE <<R[1]>> \o LastOfEach(Tail(R))

\* C24: observations with the identical timestamp count as a single point
\* with the status of the last one in iteration order: the totals of a
\* segment are those of the frame that holds only that last observation,
\* the interval before the duplicated timestamp included.
C24_DuplicatesAsLast ==
    mOut.kind = "segment" =>
        mOut.r = CalculateSegment(mIn.S, mIn.E, LastOfEach(mIn.R), mIn.is_24_7)

\* date.weekday() of a local civil date: 0 = Monday
WeekdayOfDate(date) == date % 7

\* C25: in the day walk, the day_of_week that selects the rules of a walked
\* day is the weekday of the local civil date on which the expander
\* materialises them, for negative, zero and positive offsets: a rule of
\* weekday d is applied only to local dates whose weekday is d.
C25_WeekdayOfLocalDate ==
    mOut.kind = "store" =>
        \A p \in Periods :
            \A d \in WalkDays(PeriodStart(p, mIn.now), mIn.now) :
                \A i \in 1..Len(mIn.rules) :
                    mIn.rules[i].day = Weekday(d) =>
                        WeekdayOfDate(LocalDate(d, mIn.off)) = mIn.rules[i].day

\* C26: for a store without rules, for every offset and every `now`, the
\* effective intervals of a window cover the whole window apart from the
\* last tick before each local midnight, so that uptime + downtime is the
\* window length (less those ticks) whenever the frame is not empty.
C26_WindowCovered ==
    (mOut.kind = "store" /\ mIn.rules = <<>>) =>
        \A p \in Periods :
            LET Ws == PeriodStart(p, mIn.now)
                gaps == Cardinality(WalkDays(Ws, mIn.now)) + 1
                total == mOut.res[p].up + mOut.res[p].down
            IN  RelevantObservations(mIn.obs, Ws, mIn.now, mIn.now) # <<>> =>
                    /\ total <= DurationMs(Ws, mIn.now)
                    /\ total >= DurationMs(Ws, mIn.now)
                                    - gaps * DurationMs(0, TimeResolution)

\* The business-hour intervals of the store's schedule cut to the window
\* [Ws, We]: every rule on every local date of its weekday, from `date` to
\* `lastDate`.
RECURSIVE ScheduleIntervals(_, _, _, _, _, _)
ScheduleIntervals(date, lastDate, Ws, We, rules, off) ==
    IF date > lastDate THEN <<>>
    ELSE LET daily == SelectSeq(rules, LAMBDA r : r.day = WeekdayOfDate(date))
             cut == [i \in 1..Len(daily) |->
                        LET g == RuleSegment(daily[i], date, off)
                        IN  [s |-> Max2(Ws, g.s), e |-> Min2(We, g.e)]]
         IN  SelectSeq(cut, LAMBDA x : x.s < x.e)
                 \o ScheduleIntervals(date + 1, lastDate, Ws, We, rules, off)

\* C27: every part of a business-hour interval that lies inside the window
\* is evaluated, the after-midnight part of an overnight rule of the day
\* before the window's first calendar day included (rule Friday 22:00-02:00
\* UTC, window from Saturday 01:00 UTC: the hour 01:00-02:00 is counted):
\* the evaluated intervals cover the schedule's intervals inside the window,
\* and with a non-empty frame uptime + downtime is at least their length.
C27_OvernightSpill ==
    mOut.kind = "store" =>
        \A p \in Periods :
            LET Ws == PeriodStart(p, mIn.now)
                eff == EffectiveIntervals(FloorDay(Ws), Ws, mIn.now,
                                          mIn.rules, mIn.off)
                sched == ScheduleIntervals((Ws \div DAY) - 2, (mIn.now \div DAY) + 1,
                                           Ws, mIn.now, mIn.rules, mIn.off)
            IN  /\ UnionLength(eff \o sched) = UnionLength(eff)
                /\ RelevantObservations(mIn.obs, Ws, mIn.now, mIn.now) # <<>> =>
                       mOut.res[p].up + mOut.res[p].down >= 2 * UnionLength(sched)

\* C28: the three windows end at the same `now`; before the conversion to
\* minutes and hours, the uptime of last_hour is at most that of last_day,
\* which is at most that of last_week, and so is the downtime.
C28_WindowMonotonicity ==
    mOut.kind = "store" =>
        /\ mOut.res["last_hour"].up <= mOut.res["last_day"].up
        /\ mOut.res["last_day"].up <= mOut.res["last_week"].up
        /\ mOut.res["last_hour"].down <= mOut.res["last_day"].down
        /\ mOut.res["last_day"].down <= mOut.res["last_week"].down

C28_Witness ==
    /\ mOut.kind = "store"
    /\ 0 < mOut.res["last_hour"].up
    /\ mOut.res["last_hour"].up < mOut.res["last_day"].up
    /\ mOut.res["last_day"].up < mOut.res["last_week"].up
    /\ 0 < mOut.res["last_hour"].down
    /\ mOut.res["last_hour"].down < mOut.res["last_day"].down
    /\ mOut.res["last_day"].down < mOut.res["last_week"].down

(***************************************************************************)
(* Loading the CSV files: load_csv_data_parallel_task with its chord of    *)
(* load tasks, and the management command load_csv_data.  A StoreStatus    *)
(* row is written as the number of the file row it was built from.         *)
(***************************************************************************)
MaxFileRows == 3
MaxHoursRows == 2
MaxLoadChunk == 2

\* a row of store_status.csv
StatusRow(ts, st) == [timestamp_utc |-> ts, status |-> st]

\* datetime.strptime with "%Y-%m-%d %H:%M:%S.%f %Z", then with
\* "%Y-%m-%d %H:%M:%S %Z": FALSE when both raise ValueError
TimestampParses(s) ==
    s \in {"2023-01-24 10:00:00.123456 UTC", "2023-01-24 10:00:00 UTC"}

StatusRowChoices ==
    {StatusRow("2023-01-24 10:00:00.123456 UTC", "active"),
     StatusRow("2023-01-24 10:00:00 UTC", "inactive"),
     StatusRow("2023-01-24 10:00:00 UTC", "paused"),
     StatusRow("24/01/2023 10:00", "active")}

\* the rows the loaders append to store_statuses_to_create
ValidStatusRow(r) == TimestampParses(r.timestamp_utc) /\ r.status \in Statuses

\* a row of menu_hours.csv
HoursRow(s, d, st, en) ==
    [store_id |-> s, day |-> d, start_time_local |-> st, end_time_local |-> en]

\* datetime.strptime(s, "%H:%M:%S").time(): the time of day, or ValueError
ParseTime(s) ==
    CASE s = "09:00:00" -> [raised |-> FALSE, time |-> 9 * HOUR]
      [] s = "17:00:00" -> [raised |-> FALSE, time |-> 17 * HOUR]
      [] OTHER -> [raised |-> TRUE, time |-> 0]

HoursRowChoices ==
    {HoursRow("A", 0, "09:00:00", "17:00:00"),
     HoursRow("A", 1, "09:00:00", "17:00:00"),
     HoursRow("B", 0, "09:00:00", "17:00:00"),
     HoursRow("A", 0, "25:00:00", "17:00:00"),
     HoursRow("B", 7, "09:00:00", "17:00:00")}

\* the name of the weekday column in the header of menu_hours.csv
DayColumns == {"day", "dayOfWeek"}

\* a row of timezones.csv
TimezoneRow(s, tz) == [store_id |-> s, timezone_str |-> tz]

TimezonesCsv ==
    <<TimezoneRow("A", "UTC"), TimezoneRow("A", "America/Chicago"),
      TimezoneRow("B", "Mars/Olympus_Mons"), TimezoneRow("C", "")>>

\* BusinessHours(store_id=..., day_of_week=..., start_time_local=...,
\* end_time_local=...)
BusinessHoursObj(r) ==
    [store_id |-> r.store_id, day_of_week |-> r.day,
     start_time_local |-> ParseTime(r.start_time_local).time,
     end_time_local |-> ParseTime(r.end_time_local).time]

\* bulk_create(objs, ignore_conflicts=True) on a table whose primary key is
\* store_id: an object whose key is already in the table is not inserted.
RECURSIVE BulkCreateIgnoreConflicts(_, _)
BulkCreateIgnoreConflicts(rows, objs) ==
    IF objs = <<>> THEN rows
    ELSE IF \E i \in 1..Len(rows) : rows[i].store_id = Head(objs).store_id
         THEN BulkCreateIgnoreConflicts(rows, Tail(objs))
         ELSE BulkCreateIgnoreConflicts(Append(rows, Head(objs)), Tail(objs))

\* load_store_status_chunk_task, the loop `for row in reader` from file row
\* i on: the rows appended to store_statuses_to_create.  rows_processed
\* counts the appended rows only.
RECURSIVE ReadChunk(_, _, _, _)
ReadChunk(rows, i, rows_processed, size) ==
    IF i > Len(rows) \/ rows_processed >= size THEN <<>>
    ELSE IF ValidStatusRow(rows[i])
         THEN <<i>> \o ReadChunk(rows, i + 1, rows_processed + 1, size)
         ELSE ReadChunk(rows, i + 1, rows_processed, size)

\* The management command's loop over store_status.csv: every valid row.
AllValidStatusRows(rows) == ReadChunk(rows, 1, 0, Len(rows))

\* the rows appended to business_hours_to_create: KeyError when the weekday
\* column has another name, ValueError when a time does not parse; the
\* command (checkRange) also skips a day outside 0..6
HoursToCreate(file, column, checkRange) ==
    LET ok(r) == /\ file.fieldnames = column
                 /\ ~ParseTime(r.start_time_local).raised
                 /\ ~ParseTime(r.end_time_local).raised
                 /\ checkRange => r.day \in 0..6
        kept == SelectSeq(file.rows, ok)
    IN  [i \in 1..Len(kept) |-> BusinessHoursObj(kept[i])]

\* timezone_str as the command stores it: the default for an empty string
\* and for a name pytz does not know
CommandTimezone(r) ==
    [r EXCEPT !.timezone_str =
        IF @ = "" \/ @ \notin DOMAIN KnownZones THEN "America/Chicago" ELSE @]

Task(name, start, size) == [task |-> name, chunk_start |-> start, chunk_size |-> size]

\* for start in range(0, total_rows, chunk_size):
\*     load_store_status_chunk_task.s(start, min(chunk_size, total_rows - start))
StoreStatusChunks(total_rows, size) ==
    {Task("load_store_status_chunk_task", k * size, Min2(size, total_rows - k * size)) :
        k \in {j \in 0..total_rows : j * size < total_rows}}

ChunkTasks(todo) == {t \in todo : t.task = "load_store_status_chunk_task"}

\* GET /load_data_parallel?chunk_size=size and load_csv_data_parallel_task:
\* the three tables are emptied, then the chord is applied; range() raises
\* ValueError for a step of 0.
LoadCsvDataParallelTask(size) ==
    /\ job.pc = "idle"
    /\ orm' = EmptyOrm
    /\ job' = IF size = 0
              THEN [job EXCEPT !.pc = "failed", !.via = "task", !.chunk_size = size]
              ELSE [pc |-> "loading", via |-> "task", chunk_size |-> size,
                    todo |-> StoreStatusChunks(Len(docs.store_status), size)
                               \cup {Task("load_business_hours_task", 0, 0),
                                     Task("load_timezones_task", 0, 0)},
                    counts |-> NoCounts]
    /\ UNCHANGED docs
    /\ UNCHANGED runVars /\ UNCHANGED metricVars /\ UNCHANGED dataVars

LoadStoreStatusChunkTask(t) ==
    /\ job.pc = "loading"
    /\ t \in ChunkTasks(job.todo)
    /\ LET created == ReadChunk(docs.store_status, t.chunk_start + 1, 0, t.chunk_size)
       IN  /\ orm' = [orm EXCEPT !.StoreStatus = @ \o created]
           /\ job' = [job EXCEPT !.todo = @ \ {t},
                                 !.counts.store_status = @ + Len(created)]
    /\ UNCHANGED docs
    /\ UNCHANGED runVars /\ UNCHANGED metricVars /\ UNCHANGED dataVars

LoadBusinessHoursTask ==
    /\ job.pc = "loading"
    /\ Task("load_business_hours_task", 0, 0) \in job.todo
    /\ LET created == HoursToCreate(docs.menu_hours, "day", FALSE)
       IN  /\ orm' = [orm EXCEPT !.BusinessHours =
                                    BulkCreateIgnoreConflicts(@, created)]
           /\ job' = [job EXCEPT !.todo = @ \ {Task("load_business_hours_task", 0, 0)},
                                 !.counts.business_hours = Len(created)]
    /\ UNCHANGED docs
    /\ UNCHANGED runVars /\ UNCHANGED metricVars /\ UNCHANGED dataVars

LoadTimezonesTask ==
    /\ job.pc = "loading"
    /\ Task("load_timezones_task", 0, 0) \in job.todo
    /\ orm' = [orm EXCEPT !.StoreTimezone =
                             BulkCreateIgnoreConflicts(@, docs.timezones)]
    /\ job' = [job EXCEPT !.todo = @ \ {Task("load_timezones_task", 0, 0)},
                          !.counts.timezones = Len(docs.timezones)]
    /\ UNCHANGED docs
    /\ UNCHANGED runVars /\ UNCHANGED metricVars /\ UNCHANGED dataVars

\* the chord's callback, once every task of the header has returned
FinalizeDataLoading ==
    /\ job.pc = "loading"
    /\ job.todo = {}
    /\ job' = [job EXCEPT !.pc = "completed"]
    /\ UNCHANGED <<docs, orm>>
    /\ UNCHANGED runVars /\ UNCHANGED metricVars /\ UNCHANGED dataVars

\* manage.py load_csv_data: each table is emptied and refilled in one
\* transaction, one table after the other.
Handle ==
    /\ job.pc = "idle"
    /\ LET statuses == AllValidStatusRows(docs.store_status)
           hours == HoursToCreate(docs.menu_hours, "dayOfWeek", TRUE)
           zones == [i \in 1..Len(docs.timezones) |-> CommandTimezone(docs.timezones[i])]
       IN  /\ orm' = [StoreStatus |-> statuses,
                      BusinessHours |-> BulkCreateIgnoreConflicts(<<>>, hours),
                      StoreTimezone |-> BulkCreateIgnoreConflicts(<<>>, zones)]
           /\ job' = [job EXCEPT !.pc = "completed", !.via = "command",
                                 !.counts = [store_status |-> Len(statuses),
                                             business_hours |-> Len(hours),
                                             timezones |-> Len(zones)]]
    /\ UNCHANGED docs
    /\ UNCHANGED runVars /\ UNCHANGED metricVars /\ UNCHANGED dataVars

\* the tables as an earlier load left them
OldOrm ==
    [StoreStatus |-> <<1>>,
     BusinessHours |-> <<BusinessHoursObj(HoursRow("C", 2, "09:00:00", "17:00:00"))>>,
     StoreTimezone |-> <<TimezoneRow("C", "UTC")>>]

InitLoad ==
    /\ docs \in [store_status : SeqsUpTo(StatusRowChoices, MaxFileRows),
                 menu_hours : {CsvFile(c, rows) :
                                  c \in DayColumns,
                                  rows \in SeqsUpTo(HoursRowChoices, MaxHoursRows)},
                 timezones : {TimezonesCsv}]
    /\ orm \in {EmptyOrm, OldOrm}
    /\ job = IdleJob
    /\ path = "none"
    /\ table = <<>>
    /\ chunk_size = 0
    /\ cache = {}
    /\ report = NoReport
    /\ pc = "done"
    /\ exc = "none"
    /\ found = FALSE
    /\ retries = 0
    /\ delays = <<>>
    /\ chunks = <<>>
    /\ dispatched = FALSE
    /\ combineRuns = 0
    /\ skipped = {}
    /\ mIn = NoInput
    /\ mOut = NoOutput
    /\ IdleData

NextLoad ==
    \/ \E size \in 0..MaxLoadChunk : LoadCsvDataParallelTask(size)
    \/ \E t \in job.todo : LoadStoreStatusChunkTask(t)
    \/ LoadBusinessHoursTask
    \/ LoadTimezonesTask
    \/ FinalizeDataLoading
    \/ Handle

SpecLoad == InitLoad /\ [][NextLoad]_vars

\* the number of StoreStatus rows built from file row i
Copies(i) == Cardinality({k \in 1..Len(orm.StoreStatus) : orm.StoreStatus[k] = i})

\* C29: for every chunk_size >= 1 and every store_status.csv, once all the
\* load_store_status_chunk_task chunks of a parallel load have finished,
\* each valid row of the file is in the StoreStatus table exactly once,
\* also when the file holds invalid rows, which are skipped.
C29_EachValidRowOnce ==
    (/\ job.via = "task"
     /\ job.pc \in {"loading", "completed"}
     /\ ChunkTasks(job.todo) = {})
    => \A i \in 1..Len(docs.store_status) :
           Copies(i) = IF ValidStatusRow(docs.store_status[i]) THEN 1 ELSE 0

\* the rows of menu_hours.csv that are valid for the loader that ran: the
\* weekday column it reads, a day in 0..6, two times of day
ValidHoursRows ==
    LET column == IF job.via = "task" THEN "day" ELSE "dayOfWeek"
    IN  Range(HoursToCreate(docs.menu_hours, column, TRUE))

\* store_business_hours of the report engine: the BusinessHours rows of the
\* store
StoreBusinessHours(s) ==
    SelectSeq(orm.BusinessHours, LAMBDA r : r.store_id = s)

\* C30: after a data load, every distinct valid (store_id, day_of_week,
\* start_time_local, end_time_local) row of the business-hours CSV is in
\* the BusinessHours table, so that a store holds rules for several days
\* and the report engine sees all the rules of a store.
C30_AllRulesLoaded ==
    job.pc = "completed" =>
        \A r \in ValidHoursRows : r \in Range(StoreBusinessHours(r.store_id))

=============================================================================
